---- MODULE Spec2Model ----
(***************************************************************************)
(* Model of the Aerith interpreter (src/static/interpreter.py): the scope  *)
(* chain (Env), the AST node family and its eval methods, the line parser  *)
(* (parse_expr, parse_line), the runner (run) and the REPL loop.           *)
(*                                                                         *)
(* Text is modelled by TLA+ strings, handled character by character with   *)
(* Len, SubSeq and \o.  A Python value is a record [k, n, s, e]: k is the  *)
(* Python type, n the number of an int or bool, s the text of a str or the *)
(* name of a module, e the elements of a list.                             *)
(***************************************************************************)
EXTENDS Integers, Sequences, FiniteSets, TLC

VARIABLES scopes, out, err, val, log, frames, pre, op, past, nops, alive

vars == <<scopes, out, err, val, log, frames, pre, op, past, nops, alive>>

(***************************************************************************)
(* Bounds of the model.                                                    *)
(***************************************************************************)
MaxScopes == 3
MaxEnvOps == 5
MaxEvalOps == 3
MaxRunOps == 2
MaxN == 3
MaxFuel == 5
MaxCallOps == 4
MaxSuperOps == 3
MaxBinOps == 1
MaxIfOps == 2

(***************************************************************************)
(* Python str methods, on the characters the inputs are drawn from.        *)
(***************************************************************************)
Ch(s, i) == SubSeq(s, i, i)

Lowers == "abcdefghijklmnopqrstuvwxyz"
Uppers == "ABCDEFGHIJKLMNOPQRSTUVWXYZ"
Digits == "0123456789"

IsSpace(c) == c \in {" ", "\t", "\n", "\r"}

IndexIn(alphabet, c) ==
  IF \E i \in 1..Len(alphabet) : Ch(alphabet, i) = c
  THEN CHOOSE i \in 1..Len(alphabet) : Ch(alphabet, i) = c
  ELSE 0

IsDigit(c) == IndexIn(Digits, c) > 0

RECURSIVE lstrip(_)
lstrip(s) ==
  IF Len(s) > 0 /\ IsSpace(Ch(s, 1)) THEN lstrip(SubSeq(s, 2, Len(s))) ELSE s

RECURSIVE rstrip(_)
rstrip(s) ==
  IF Len(s) > 0 /\ IsSpace(Ch(s, Len(s))) THEN rstrip(SubSeq(s, 1, Len(s) - 1)) ELSE s

strip(s) == rstrip(lstrip(s))

\* a test that finds p anywhere in s
RECURSIVE startswith_anywhere(_, _)
startswith_anywhere(s, p) ==
  Len(s) >= Len(p) /\ (SubSeq(s, 1, Len(p)) = p \/ startswith_anywhere(SubSeq(s, 2, Len(s)), p))

startswith(s, p) == Len(s) >= Len(p) /\ SubSeq(s, 1, Len(p)) = p

endswith(s, p) == Len(s) >= Len(p) /\ SubSeq(s, Len(s) - Len(p) + 1, Len(s)) = p

UpperCh(c) == IF IndexIn(Lowers, c) > 0 THEN Ch(Uppers, IndexIn(Lowers, c)) ELSE c

RECURSIVE upper(_)
upper(s) == IF Len(s) = 0 THEN "" ELSE UpperCh(Ch(s, 1)) \o upper(SubSeq(s, 2, Len(s)))

LowerCh(c) == IF IndexIn(Uppers, c) > 0 THEN Ch(Lowers, IndexIn(Uppers, c)) ELSE c

RECURSIVE lower(_)
lower(s) == IF Len(s) = 0 THEN "" ELSE LowerCh(Ch(s, 1)) \o lower(SubSeq(s, 2, Len(s)))

\* position of the first occurrence of the character c in s, 0 when absent
Find(s, c) ==
  IF \E i \in 1..Len(s) : Ch(s, i) = c
  THEN CHOOSE i \in 1..Len(s) : Ch(s, i) = c /\ \A j \in 1..(i - 1) : Ch(s, j) # c
  ELSE 0

\* s.split(c, 1): at most two pieces, cut at the first c
split1(s, c) ==
  LET i == Find(s, c)
  IN IF i = 0 THEN <<s>> ELSE <<SubSeq(s, 1, i - 1), SubSeq(s, i + 1, Len(s))>>

\* s.split(c): every piece between occurrences of c, empty pieces kept
RECURSIVE splitAll(_, _)
splitAll(s, c) ==
  LET i == Find(s, c)
  IN IF i = 0 THEN <<s>> ELSE <<SubSeq(s, 1, i - 1)>> \o splitAll(SubSeq(s, i + 1, Len(s)), c)

\* s.split(): the maximal runs of non-whitespace characters
RECURSIVE splitws(_)
splitws(s) ==
  LET t == lstrip(s)
      n == IF \E i \in 1..Len(t) : IsSpace(Ch(t, i))
           THEN (CHOOSE i \in 1..Len(t) : IsSpace(Ch(t, i)) /\ \A j \in 1..(i - 1) : ~IsSpace(Ch(t, j))) - 1
           ELSE Len(t)
  IN IF Len(t) = 0 THEN <<>> ELSE <<SubSeq(t, 1, n)>> \o splitws(SubSeq(t, n + 1, Len(t)))

\* s.splitlines(): cut at line feeds; a final line feed opens no empty line
RECURSIVE splitlines(_)
splitlines(s) ==
  LET i == Find(s, "\n")
  IN IF Len(s) = 0 THEN <<>>
     ELSE IF i = 0 THEN <<s>>
     ELSE <<SubSeq(s, 1, i - 1)>> \o splitlines(SubSeq(s, i + 1, Len(s)))

(***************************************************************************)
(* int(text) and str(int).                                                 *)
(***************************************************************************)
\* the digits-and-underscores body of an integer literal
IsIntBody(b) ==
  /\ Len(b) > 0
  /\ IsDigit(Ch(b, 1))
  /\ IsDigit(Ch(b, Len(b)))
  /\ \A i \in 1..Len(b) : IsDigit(Ch(b, i)) \/ Ch(b, i) = "_"
  /\ \A i \in 1..(Len(b) - 1) : ~(Ch(b, i) = "_" /\ Ch(b, i + 1) = "_")

IntBody(t) == IF Len(t) > 0 /\ Ch(t, 1) \in {"+", "-"} THEN SubSeq(t, 2, Len(t)) ELSE t

IsIntLiteral(s) == IsIntBody(IntBody(strip(s)))

RECURSIVE DigitsValue(_, _)
DigitsValue(b, acc) ==
  IF Len(b) = 0 THEN acc
  ELSE IF Ch(b, 1) = "_" THEN DigitsValue(SubSeq(b, 2, Len(b)), acc)
  ELSE DigitsValue(SubSeq(b, 2, Len(b)), 10 * acc + (IndexIn(Digits, Ch(b, 1)) - 1))

\* int(s) for an s that IsIntLiteral accepts
IntOf(s) ==
  LET t == strip(s)
  IN IF Len(t) > 0 /\ Ch(t, 1) = "-" THEN 0 - DigitsValue(IntBody(t), 0) ELSE DigitsValue(IntBody(t), 0)

RECURSIVE NatStr(_)
NatStr(n) == IF n < 10 THEN Ch(Digits, n + 1) ELSE NatStr(n \div 10) \o Ch(Digits, (n % 10) + 1)

IntStr(n) == IF n < 0 THEN "-" \o NatStr(0 - n) ELSE NatStr(n)

(***************************************************************************)
(* Python values and their text.                                           *)
(***************************************************************************)
IntV(n) == [k |-> "int", n |-> n, s |-> "", e |-> <<>>]

BoolV(b) == [k |-> "bool", n |-> IF b THEN 1 ELSE 0, s |-> "", e |-> <<>>]

StrV(s) == [k |-> "str", n |-> 0, s |-> s, e |-> <<>>]

NoneV == [k |-> "none", n |-> 0, s |-> "", e |-> <<>>]

ListV(e) == [k |-> "list", n |-> 0, s |-> "", e |-> e]

ModuleV(name) == [k |-> "module", n |-> 0, s |-> name, e |-> <<>>]

IsNum(v) == v.k \in {"int", "bool"}

\* bool(v), the truth test of if, while, and, or
Truthy(v) ==
  CASE v.k \in {"int", "bool"} -> v.n # 0
    [] v.k = "str" -> Len(v.s) > 0
    [] v.k = "list" -> Len(v.e) > 0
    [] v.k = "none" -> FALSE
    [] OTHER -> TRUE

EscapeCh(c, q) ==
  CASE c = "\\" -> "\\\\"
    [] c = "\n" -> "\\n"
    [] c = "\r" -> "\\r"
    [] c = "\t" -> "\\t"
    [] c = q -> "\\" \o q
    [] OTHER -> c

RECURSIVE Escape(_, _)
Escape(s, q) == IF Len(s) = 0 THEN "" ELSE EscapeCh(Ch(s, 1), q) \o Escape(SubSeq(s, 2, Len(s)), q)

\* repr(str): single quotes unless the text holds ' and no "
StrRepr(s) ==
  IF Find(s, "'") > 0 /\ Find(s, "\"") = 0
  THEN "\"" \o Escape(s, "\"") \o "\""
  ELSE "'" \o Escape(s, "'") \o "'"

RECURSIVE PyRepr(_), ReprJoin(_)
PyRepr(v) ==
  CASE v.k = "int" -> IntStr(v.n)
    [] v.k = "bool" -> IF v.n = 1 THEN "True" ELSE "False"
    [] v.k = "none" -> "None"
    [] v.k = "str" -> StrRepr(v.s)
    [] v.k = "list" -> "[" \o ReprJoin(v.e) \o "]"
    [] OTHER -> "<module '" \o v.s \o "'>"

ReprJoin(e) ==
  IF Len(e) = 0 THEN ""
  ELSE IF Len(e) = 1 THEN PyRepr(e[1])
  ELSE PyRepr(e[1]) \o ", " \o ReprJoin(Tail(e))

\* str(v), the text print writes
PyStr(v) == IF v.k = "str" THEN v.s ELSE PyRepr(v)

RECURSIVE DictJoin(_)
DictJoin(vs) ==
  IF Len(vs) = 0 THEN ""
  ELSE StrRepr(vs[1].name) \o ": " \o PyRepr(vs[1].value)
       \o (IF Len(vs) = 1 THEN "" ELSE ", " \o DictJoin(Tail(vs)))

\* repr of a dict of variables, in insertion order
DictRepr(vs) == "{" \o DictJoin(vs) \o "}"

(***************************************************************************)
(* Errors.                                                                 *)
(***************************************************************************)
NoErr == [type |-> "", msg |-> ""]

Error(type, msg) == [type |-> type, msg |-> msg]

(***************************************************************************)
(* class Env.  The scopes of a session live in an arena, a sequence of     *)
(* records; a scope is named by its index and parent = 0 stands for None.  *)
(* vars and funcs are dicts: sequences of entries in insertion order.      *)
(***************************************************************************)
Env(parent) ==
  [vars |-> <<>>, funcs |-> <<>>, classes |-> <<>>, parent |-> parent, superuser |-> FALSE]

\* name in d
Has(d, name) == \E i \in 1..Len(d) : d[i].name = name

\* d[name]
At(d, name) == d[CHOOSE i \in 1..Len(d) : d[i].name = name]

\* d[name] = entry: an existing key keeps its place, a new key goes last
Put(d, entry) ==
  IF Has(d, entry.name)
  THEN [i \in 1..Len(d) |-> IF d[i].name = entry.name THEN entry ELSE d[i]]
  ELSE Append(d, entry)

\* a lookup that stops at the parent
Env_get_shallow(sc, env, name) ==
  IF Has(sc[env].vars, name) THEN [err |-> NoErr, val |-> At(sc[env].vars, name).value]
  ELSE IF sc[env].parent # 0 /\ Has(sc[sc[env].parent].vars, name)
  THEN [err |-> NoErr, val |-> At(sc[sc[env].parent].vars, name).value]
  ELSE [err |-> Error("NameError", "Variable '" \o name \o "' not defined"), val |-> NoneV]

RECURSIVE Env_get(_, _, _)
Env_get(sc, env, name) ==
  IF Has(sc[env].vars, name) THEN [err |-> NoErr, val |-> At(sc[env].vars, name).value]
  ELSE IF sc[env].parent # 0 THEN Env_get(sc, sc[env].parent, name)
  ELSE [err |-> Error("NameError", "Variable '" \o name \o "' not defined"), val |-> NoneV]

\* an assignment that creates the variable locally when the scope lacks it
Env_set_creating(sc, env, name, value) ==
  [err |-> NoErr, scopes |-> [sc EXCEPT ![env].vars = Put(@, [name |-> name, value |-> value])]]

RECURSIVE Env_set(_, _, _, _)
Env_set(sc, env, name, value) ==
  IF Has(sc[env].vars, name)
  THEN [err |-> NoErr,
        scopes |-> [sc EXCEPT ![env].vars = Put(@, [name |-> name, value |-> value])]]
  ELSE IF sc[env].parent # 0 THEN Env_set(sc, sc[env].parent, name, value)
  ELSE [err |-> Error("NameError", "Variable '" \o name \o "' not defined"), scopes |-> sc]

\* a declaration that overwrites the parent's variable when the parent has one
Env_declare_outer(sc, env, name, value) ==
  IF sc[env].parent # 0 /\ Has(sc[sc[env].parent].vars, name)
  THEN [sc EXCEPT ![sc[env].parent].vars = Put(@, [name |-> name, value |-> value])]
  ELSE [sc EXCEPT ![env].vars = Put(@, [name |-> name, value |-> value])]

Env_declare(sc, env, name, value) ==
  [sc EXCEPT ![env].vars = Put(@, [name |-> name, value |-> value])]

Env_define_func(sc, env, name, args, body) ==
  [sc EXCEPT ![env].funcs = Put(@, [name |-> name, args |-> args, body |-> body])]

RECURSIVE Env_get_func(_, _, _)
Env_get_func(sc, env, name) ==
  IF Has(sc[env].funcs, name)
  THEN [err |-> NoErr, args |-> At(sc[env].funcs, name).args, body |-> At(sc[env].funcs, name).body]
  ELSE IF sc[env].parent # 0 THEN Env_get_func(sc, sc[env].parent, name)
  ELSE [err |-> Error("NameError", "Function '" \o name \o "' not defined"), args |-> <<>>, body |-> <<>>]

(***************************************************************************)
(* The AST node classes.  A node is a record whose kind is its class.      *)
(***************************************************************************)
Number(value) == [kind |-> "Number", value |-> IntV(value)]

String(value) == [kind |-> "String", value |-> StrV(value)]

Boolean(value) == [kind |-> "Boolean", value |-> BoolV(value)]

NoneNode == [kind |-> "NoneNode"]

Array(elements) == [kind |-> "Array", elements |-> elements]

Var(name) == [kind |-> "Var", name |-> name]

BinOp(left, o, right) == [kind |-> "BinOp", left |-> left, op |-> o, right |-> right]

Let(name, expr) == [kind |-> "Let", name |-> name, expr |-> expr]

Assign(name, expr) == [kind |-> "Assign", name |-> name, expr |-> expr]

PrintNode(expr) == [kind |-> "Print", expr |-> expr]

FuncDef(name, args, body) == [kind |-> "FuncDef", name |-> name, params |-> args, body |-> body]

FuncCall(name, args) == [kind |-> "FuncCall", name |-> name, args |-> args]

\* false_body = None is the empty list: both are falsy in "elif self.false_body"
If(cond, true_body, false_body) ==
  [kind |-> "If", cond |-> cond, true_body |-> true_body, false_body |-> false_body]

While(cond, body) == [kind |-> "While", cond |-> cond, body |-> body]

\* parse_line's "return None"
NoNode == [kind |-> "None"]

(***************************************************************************)
(* The operators of BinOp.eval on Python values.                           *)
(***************************************************************************)
TypeName(v) ==
  CASE v.k = "none" -> "NoneType"
    [] OTHER -> v.k

RECURSIVE PyEq(_, _)
PyEq(l, r) ==
  CASE IsNum(l) /\ IsNum(r) -> l.n = r.n
    [] l.k = "str" /\ r.k = "str" -> l.s = r.s
    [] l.k = "none" /\ r.k = "none" -> TRUE
    [] l.k = "module" /\ r.k = "module" -> l.s = r.s
    [] l.k = "list" /\ r.k = "list" ->
         /\ Len(l.e) = Len(r.e)
         /\ \A i \in 1..Len(l.e) : PyEq(l.e[i], r.e[i])
    [] OTHER -> FALSE

\* l % r with the sign of the divisor
PyMod(l, r) ==
  IF r > 0 THEN l % r ELSE 0 - ((0 - l) % (0 - r))

RECURSIVE Repeat(_, _)
Repeat(s, n) == IF n <= 0 THEN "" ELSE s \o Repeat(s, n - 1)

RECURSIVE RepeatList(_, _)
RepeatList(e, n) == IF n <= 0 THEN <<>> ELSE e \o RepeatList(e, n - 1)

Unsupported(o, l, r) ==
  Error("TypeError", "unsupported operand type(s) for " \o o \o ": '" \o TypeName(l)
                     \o "' and '" \o TypeName(r) \o "'")

NotOrdered(o, l, r) ==
  Error("TypeError", "'" \o o \o "' not supported between instances of '" \o TypeName(l)
                     \o "' and '" \o TypeName(r) \o "'")

\* results the model does not compute: floats, orderings of text and of lists
Unmodelled(o) == Error("Unmodelled", o)

Value(v) == [err |-> NoErr, val |-> v]

Fails(e) == [err |-> e, val |-> NoneV]

\* an ordering that takes < for <=
Compare_inclusive(o, l, r) ==
  IF IsNum(l) /\ IsNum(r)
  THEN Value(BoolV(CASE o = ">" -> l.n > r.n
                     [] o = "<" -> l.n <= r.n
                     [] o = ">=" -> l.n >= r.n
                     [] OTHER -> l.n <= r.n))
  ELSE Fails(NotOrdered(o, l, r))

Compare(o, l, r) ==
  IF IsNum(l) /\ IsNum(r)
  THEN Value(BoolV(CASE o = ">" -> l.n > r.n
                     [] o = "<" -> l.n < r.n
                     [] o = ">=" -> l.n >= r.n
                     [] OTHER -> l.n <= r.n))
  ELSE IF (l.k = "str" /\ r.k = "str") \/ (l.k = "list" /\ r.k = "list")
  THEN Fails(Unmodelled(o))
  ELSE Fails(NotOrdered(o, l, r))

ApplyOp(o, l, r) ==
  CASE o = "+" ->
         (CASE IsNum(l) /\ IsNum(r) -> Value(IntV(l.n + r.n))
            [] l.k = "str" /\ r.k = "str" -> Value(StrV(l.s \o r.s))
            [] l.k = "list" /\ r.k = "list" -> Value(ListV(l.e \o r.e))
            [] l.k = "str" /\ r.k # "str" ->
                 Fails(Error("TypeError", "can only concatenate str (not \"" \o TypeName(r) \o "\") to str"))
            [] l.k = "list" /\ r.k # "list" ->
                 Fails(Error("TypeError", "can only concatenate list (not \"" \o TypeName(r) \o "\") to list"))
            [] OTHER -> Fails(Unsupported(o, l, r)))
    [] o = "-" ->
         IF IsNum(l) /\ IsNum(r) THEN Value(IntV(l.n - r.n)) ELSE Fails(Unsupported(o, l, r))
    [] o = "*" ->
         (CASE IsNum(l) /\ IsNum(r) -> Value(IntV(l.n * r.n))
            [] l.k = "str" /\ IsNum(r) -> Value(StrV(Repeat(l.s, r.n)))
            [] IsNum(l) /\ r.k = "str" -> Value(StrV(Repeat(r.s, l.n)))
            [] l.k = "list" /\ IsNum(r) -> Value(ListV(RepeatList(l.e, r.n)))
            [] IsNum(l) /\ r.k = "list" -> Value(ListV(RepeatList(r.e, l.n)))
            [] l.k \in {"str", "list"} ->
                 Fails(Error("TypeError", "can't multiply sequence by non-int of type '" \o TypeName(r) \o "'"))
            [] r.k \in {"str", "list"} ->
                 Fails(Error("TypeError", "can't multiply sequence by non-int of type '" \o TypeName(l) \o "'"))
            [] OTHER -> Fails(Unsupported(o, l, r)))
    [] o = "/" ->
         (CASE IsNum(l) /\ IsNum(r) /\ r.n = 0 -> Fails(Error("ZeroDivisionError", "division by zero"))
            [] IsNum(l) /\ IsNum(r) /\ r.n # 0 -> Fails(Unmodelled(o))
            [] OTHER -> Fails(Unsupported(o, l, r)))
    [] o = "%" ->
         (CASE IsNum(l) /\ IsNum(r) /\ r.n = 0 ->
                 Fails(Error("ZeroDivisionError", "integer modulo by zero"))
            [] IsNum(l) /\ IsNum(r) /\ r.n # 0 -> Value(IntV(PyMod(l.n, r.n)))
            [] l.k = "str" -> Fails(Unmodelled(o))
            [] OTHER -> Fails(Unsupported(o, l, r)))
    [] o = "==" -> Value(BoolV(PyEq(l, r)))
    [] o = "!=" -> Value(BoolV(~PyEq(l, r)))
    [] o \in {">", "<", ">=", "<="} -> Compare(o, l, r)
    [] o = "&&" -> Value(IF Truthy(l) THEN r ELSE l)
    [] o = "||" -> Value(IF Truthy(l) THEN l ELSE r)
    [] OTHER -> Fails(Error("Exception", "Unknown operator " \o o))

(***************************************************************************)
(* Node.eval.  An evaluation threads a record M through the calls:         *)
(* M.scopes is the arena, M.out the lines printed, M.err the exception     *)
(* raised (NoErr while none is), M.val the value returned by the last      *)
(* eval, M.log the nodes evaluated in order with the scope of each, and    *)
(* M.frames the local scopes of the function calls that have ended.        *)
(***************************************************************************)
Raise(M, e) == [M EXCEPT !.err = e, !.val = NoneV]

Return(M, v) == [M EXCEPT !.val = v]

Ok(M) == M.err = NoErr

Entered(M, node, env) ==
  [M EXCEPT !.log = Append(@, [kind |-> node.kind, env |-> env,
                               name |-> CASE node.kind \in {"Var", "Let", "Assign", "FuncDef", "FuncCall"} -> node.name
                                          [] node.kind = "BinOp" -> node.op
                                          [] OTHER -> ""])]

\* the modules importlib.import_module finds on the host
Importable == {"os", "sys"}

import_module(M, name) ==
  CASE name = "" -> Raise(M, Error("ValueError", "Empty module name"))
    [] name \in Importable -> Return(M, ModuleV(name))
    [] OTHER -> Raise(M, Error("ModuleNotFoundError", "No module named '" \o name \o "'"))

RECURSIVE Eval(_, _, _, _), EvalArray(_, _, _, _, _), EvalEach(_, _, _, _)
RECURSIVE BindArgs(_, _, _, _, _, _), EvalBody(_, _, _, _), EvalWhile(_, _, _, _)

\* [el.eval(env) for el in elements]
EvalArray(elements, env, M, fuel, acc) ==
  IF Len(elements) = 0 THEN Return(M, ListV(acc))
  ELSE LET M1 == Eval(Head(elements), env, M, fuel)
       IN IF Ok(M1) THEN EvalArray(Tail(elements), env, M1, fuel, Append(acc, M1.val)) ELSE M1

\* for stmt in body: stmt.eval(env)
EvalEach(body, env, M, fuel) ==
  IF Len(body) = 0 THEN Return(M, NoneV)
  ELSE LET M1 == Eval(Head(body), env, M, fuel)
       IN IF Ok(M1) THEN EvalEach(Tail(body), env, M1, fuel) ELSE M1

\* a binding that evaluates the arguments beyond the parameters as well
BindArgs_every(params, args, env, local_env, M, fuel) ==
  IF Len(args) = 0 THEN M
  ELSE LET M1 == Eval(Head(args), env, M, fuel)
       IN IF ~Ok(M1) THEN M1
          ELSE IF Len(params) = 0 THEN BindArgs(params, Tail(args), env, local_env, M1, fuel)
          ELSE BindArgs(Tail(params), Tail(args), env, local_env,
                        [M1 EXCEPT !.scopes = Env_declare(@, local_env, Head(params), M1.val)], fuel)

\* for n, a in zip(func_args, self.args): local_env.declare(n, a.eval(env))
BindArgs(params, args, env, local_env, M, fuel) ==
  IF Len(params) = 0 \/ Len(args) = 0 THEN M
  ELSE LET M1 == Eval(Head(args), env, M, fuel)
       IN IF Ok(M1)
          THEN BindArgs(Tail(params), Tail(args), env, local_env,
                        [M1 EXCEPT !.scopes = Env_declare(@, local_env, Head(params), M1.val)], fuel)
          ELSE M1

\* a body whose statements run in the scope of the caller
EvalBody_in_caller(body, local_env, M, fuel) ==
  IF Len(body) = 0 THEN M
  ELSE LET M1 == Eval(Head(body), M.scopes[local_env].parent, M, fuel)
       IN IF Ok(M1) THEN EvalBody(Tail(body), local_env, M1, fuel) ELSE M1

\* ret = None; for stmt in func_body: ret = stmt.eval(local_env)
EvalBody(body, local_env, M, fuel) ==
  IF Len(body) = 0 THEN M
  ELSE LET M1 == Eval(Head(body), local_env, M, fuel)
       IN IF Ok(M1) THEN EvalBody(Tail(body), local_env, M1, fuel) ELSE M1

\* the local scope of a call is dropped when the call ends, by return or by raise
EndCall(M, local_env) ==
  [M EXCEPT !.frames = Append(@, M.scopes[local_env]),
            !.scopes = SubSeq(@, 1, local_env - 1)]

FuncCall_eval(node, env, M, fuel) ==
  LET f == Env_get_func(M.scopes, env, node.name)
      local_env == Len(M.scopes) + 1
      M0 == [M EXCEPT !.scopes = Append(@, Env(env))]
      M1 == BindArgs(f.args, node.args, env, local_env, M0, fuel)
      M2 == EvalBody(f.body, local_env, Return(M1, NoneV), fuel - 1)
  IN IF f.err # NoErr THEN import_module(M, node.name)
     ELSE IF fuel = 0 THEN Raise(M, Error("ModelFuel", "FuncCall"))
     ELSE IF ~Ok(M1) THEN EndCall(M1, local_env)
     ELSE EndCall(M2, local_env)

\* while self.cond.eval(env): for stmt in self.body: stmt.eval(env)
EvalWhile(node, env, M, fuel) ==
  LET M1 == Eval(node.cond, env, M, fuel)
      M2 == EvalEach(node.body, env, M1, fuel)
  IN IF ~Ok(M1) THEN M1
     ELSE IF ~Truthy(M1.val) THEN Return(M1, NoneV)
     ELSE IF fuel = 0 THEN Raise(M1, Error("ModelFuel", "While"))
     ELSE IF ~Ok(M2) THEN M2
     ELSE EvalWhile(node, env, M2, fuel - 1)

\* a BinOp whose && and || leave the right operand alone when the left decides
BinOp_eval_short(node, env, M, fuel) ==
  LET M1 == Eval(node.left, env, M, fuel)
      M2 == Eval(node.right, env, M1, fuel)
      r == ApplyOp(node.op, M1.val, M2.val)
  IN IF ~Ok(M1) THEN M1
     ELSE IF node.op = "&&" /\ ~Truthy(M1.val) THEN M1
     ELSE IF node.op = "||" /\ Truthy(M1.val) THEN M1
     ELSE IF ~Ok(M2) THEN M2
     ELSE IF r.err # NoErr THEN Raise(M2, r.err)
     ELSE Return(M2, r.val)

BinOp_eval(node, env, M, fuel) ==
  LET M1 == Eval(node.left, env, M, fuel)
      M2 == Eval(node.right, env, M1, fuel)
      r == ApplyOp(node.op, M1.val, M2.val)
  IN IF ~Ok(M1) THEN M1
     ELSE IF ~Ok(M2) THEN M2
     ELSE IF r.err # NoErr THEN Raise(M2, r.err)
     ELSE Return(M2, r.val)

Var_eval(node, env, M) ==
  LET r == Env_get(M.scopes, env, node.name)
  IN IF r.err # NoErr THEN Raise(M, r.err) ELSE Return(M, r.val)

\* a Let that declares the name before its expression has a value
Let_eval_eager(node, env, M, fuel) ==
  LET M0 == [M EXCEPT !.scopes = Env_declare(@, env, node.name, NoneV)]
      M1 == Eval(node.expr, env, M0, fuel)
  IN IF ~Ok(M1) THEN M1
     ELSE Return([M1 EXCEPT !.scopes = Env_declare(@, env, node.name, M1.val)], NoneV)

Let_eval(node, env, M, fuel) ==
  LET M1 == Eval(node.expr, env, M, fuel)
  IN IF ~Ok(M1) THEN M1
     ELSE Return([M1 EXCEPT !.scopes = Env_declare(@, env, node.name, M1.val)], NoneV)

Assign_eval(node, env, M, fuel) ==
  LET M1 == Eval(node.expr, env, M, fuel)
      r == Env_set(M1.scopes, env, node.name, M1.val)
  IN IF ~Ok(M1) THEN M1
     ELSE IF r.err # NoErr THEN Raise(M1, r.err)
     ELSE Return([M1 EXCEPT !.scopes = r.scopes], NoneV)

Print_eval(node, env, M, fuel) ==
  LET M1 == Eval(node.expr, env, M, fuel)
  IN IF ~Ok(M1) THEN M1
     ELSE Return([M1 EXCEPT !.out = Append(@, PyStr(M1.val))], NoneV)

FuncDef_eval(node, env, M) ==
  Return([M EXCEPT !.scopes = Env_define_func(@, env, node.name, node.params, node.body)], NoneV)

\* an If whose then-body falls through into its else-body
If_eval_fallthrough(node, env, M, fuel) ==
  LET M1 == Eval(node.cond, env, M, fuel)
  IN IF ~Ok(M1) THEN M1
     ELSE IF Truthy(M1.val)
     THEN EvalEach(node.true_body \o node.false_body, env, M1, fuel)
     ELSE IF Len(node.false_body) > 0 THEN EvalEach(node.false_body, env, M1, fuel)
     ELSE Return(M1, NoneV)

If_eval(node, env, M, fuel) ==
  LET M1 == Eval(node.cond, env, M, fuel)
  IN IF ~Ok(M1) THEN M1
     ELSE IF Truthy(M1.val) THEN EvalEach(node.true_body, env, M1, fuel)
     ELSE IF Len(node.false_body) > 0 THEN EvalEach(node.false_body, env, M1, fuel)
     ELSE Return(M1, NoneV)

Eval(node, env, M, fuel) ==
  LET E == Entered(M, node, env)
  IN CASE node.kind \in {"Number", "String", "Boolean"} -> Return(E, node.value)
       [] node.kind = "NoneNode" -> Return(E, NoneV)
       [] node.kind = "Array" -> EvalArray(node.elements, env, E, fuel, <<>>)
       [] node.kind = "Var" -> Var_eval(node, env, E)
       [] node.kind = "BinOp" -> BinOp_eval(node, env, E, fuel)
       [] node.kind = "Let" -> Let_eval(node, env, E, fuel)
       [] node.kind = "Assign" -> Assign_eval(node, env, E, fuel)
       [] node.kind = "Print" -> Print_eval(node, env, E, fuel)
       [] node.kind = "FuncDef" -> FuncDef_eval(node, env, E)
       [] node.kind = "FuncCall" -> FuncCall_eval(node, env, E, fuel)
       [] node.kind = "If" -> If_eval(node, env, E, fuel)
       [] OTHER -> EvalWhile(node, env, E, fuel)

(***************************************************************************)
(* The parser.                                                             *)
(***************************************************************************)
\* expr[1:-1]
Inner(expr) == IF Len(expr) < 2 THEN "" ELSE SubSeq(expr, 2, Len(expr) - 1)

RECURSIVE parse_expr(_), parse_elements(_)
parse_expr(text) ==
  LET expr == strip(text)
  IN CASE expr = "true" -> Boolean(TRUE)
       [] expr = "false" -> Boolean(FALSE)
       [] expr = "none" -> NoneNode
       [] expr \notin {"true", "false", "none"} /\ startswith(expr, "\"") /\ endswith(expr, "\"") ->
            String(Inner(expr))
       [] expr \notin {"true", "false", "none"} /\ startswith(expr, "[") /\ endswith(expr, "]") ->
            Array(parse_elements(splitAll(Inner(expr), ",")))
       [] OTHER -> IF IsIntLiteral(expr) THEN Number(IntOf(expr)) ELSE Var(expr)

\* [parse_expr(x.strip()) for x in pieces if x.strip()]
parse_elements(pieces) ==
  IF Len(pieces) = 0 THEN <<>>
  ELSE IF strip(Head(pieces)) = "" THEN parse_elements(Tail(pieces))
  ELSE <<parse_expr(strip(Head(pieces)))>> \o parse_elements(Tail(pieces))

\* the node of a line, NoNode for "return None"; err is the ValueError of
\* "name, expr = ..." when the split gives one piece
parse_line(text) ==
  LET line == strip(text)
      parts == split1(SubSeq(line, 5, Len(line)), "=")
  IN IF startswith(line, "let ")
     THEN IF Len(parts) = 2
          THEN [err |-> NoErr, node |-> Let(strip(parts[1]), parse_expr(strip(parts[2])))]
          ELSE [err |-> Error("ValueError", "not enough values to unpack (expected 2, got 1)"),
                node |-> NoNode]
     ELSE IF startswith(line, "shout ")
     THEN [err |-> NoErr, node |-> PrintNode(parse_expr(SubSeq(line, 7, Len(line))))]
     ELSE [err |-> NoErr, node |-> NoNode]

(***************************************************************************)
(* The runner.                                                             *)
(***************************************************************************)
MAGIC == "SUDO%20INIT%20SUPERUSERMODE"

\* "_, var, val = line_strip.split()": the ValueError of a wrong count
UnpackError(n) ==
  IF n > 3 THEN Error("ValueError", "too many values to unpack (expected 3)")
  ELSE Error("ValueError", "not enough values to unpack (expected 3, got " \o IntStr(n) \o ")")

\* a set_var that declares the variable in env
set_var_declaring(var, v, env, M) ==
  IF ~IsIntLiteral(v)
  THEN Raise(M, Error("ValueError", "invalid literal for int() with base 10: " \o StrRepr(v)))
  ELSE [M EXCEPT !.scopes = Env_declare(@, env, var, IntV(IntOf(v))),
                 !.out = Append(@, "[SUPERUSER] " \o var \o " set to " \o v)]

\* "env.set(var, int(val)); print(f'[SUPERUSER] {var} set to {val}')"; v is
\* val, the third word of the line
set_var(var, v, env, M) ==
  LET r == Env_set(M.scopes, env, var, IntV(IntOf(v)))
  IN IF ~IsIntLiteral(v)
     THEN Raise(M, Error("ValueError", "invalid literal for int() with base 10: " \o StrRepr(v)))
     ELSE IF r.err # NoErr THEN Raise(M, r.err)
     ELSE [M EXCEPT !.scopes = r.scopes,
                    !.out = Append(@, "[SUPERUSER] " \o var \o " set to " \o v)]

\* commands that pass over a set_var line of the wrong word count
superuser_commands_lenient(line_strip, env, M) ==
  LET parts == splitws(line_strip)
  IN IF startswith(line_strip, "reveal_vars")
     THEN [M EXCEPT !.out = Append(@, "[SUPERUSER] Variables: " \o DictRepr(M.scopes[env].vars))]
     ELSE IF startswith(line_strip, "set_var") /\ Len(parts) = 3
     THEN set_var(parts[2], parts[3], env, M)
     ELSE M

\* the superuser commands of a line, run when env.superuser is set
superuser_commands(line_strip, env, M) ==
  LET parts == splitws(line_strip)
  IN IF startswith(line_strip, "reveal_vars")
     THEN [M EXCEPT !.out = Append(@, "[SUPERUSER] Variables: " \o DictRepr(M.scopes[env].vars))]
     ELSE IF startswith(line_strip, "set_var")
     THEN IF Len(parts) # 3 THEN Raise(M, UnpackError(Len(parts)))
          ELSE set_var(parts[2], parts[3], env, M)
     ELSE M

\* a token that switches the mode off when it is on
activate_toggle(env, M) ==
  [M EXCEPT !.scopes[env].superuser = ~@,
            !.out = Append(@, "[SUPERUSER MODE ACTIVATED]")]

\* env.superuser = True; print('[SUPERUSER MODE ACTIVATED]')
activate(env, M) ==
  [M EXCEPT !.scopes[env].superuser = TRUE,
            !.out = Append(@, "[SUPERUSER MODE ACTIVATED]")]

\* commands open to every session
superuser_always(env, M) == TRUE

\* "if env.superuser:"
superuser_on(env, M) == M.scopes[env].superuser

\* "if env.superuser: ...", reached when the statement of the line raised nothing
after_eval(line_strip, env, M) ==
  IF ~Ok(M) THEN M
  ELSE IF superuser_on(env, M) THEN superuser_commands(line_strip, env, M)
  ELSE M

\* "node = parse_line(line); if node: node.eval(env)", p being what parse_line gave
eval_line(line_strip, p, env, M) ==
  IF p.err # NoErr THEN Raise(M, p.err)
  ELSE IF p.node.kind = "None" THEN after_eval(line_strip, env, M)
  ELSE after_eval(line_strip, env, Eval(p.node, env, M, MaxFuel))

\* one pass of the body of "for line in source.splitlines()"
run_line(line, env, M) ==
  IF upper(strip(line)) = MAGIC THEN activate(env, M)
  ELSE eval_line(strip(line), parse_line(line), env, M)

RECURSIVE run_lines(_, _, _), next_line(_, _, _)
\* the loop goes on to the lines left unless the line before them raised
next_line(lines, env, M) == IF Ok(M) THEN run_lines(lines, env, M) ELSE M

run_lines(lines, env, M) ==
  IF Len(lines) = 0 THEN M
  ELSE next_line(Tail(lines), env, run_line(Head(lines), env, M))

Machine(sc) ==
  [scopes |-> sc, out |-> <<>>, err |-> NoErr, val |-> NoneV, log |-> <<>>, frames |-> <<>>]

\* a run that always makes its own environment
run_forgetful(source, env, sc) ==
  [M |-> run_lines(splitlines(source), Len(sc) + 1, Machine(Append(sc, Env(0)))), env |-> Len(sc) + 1]

\* run(source, env) on the arena sc; env = 0 is env = None.  The result is
\* the machine after the last line run and the environment returned.
run(source, env, sc) ==
  LET e == IF env = 0 THEN Len(sc) + 1 ELSE env
      sc0 == IF env = 0 THEN Append(sc, Env(0)) ELSE sc
  IN [M |-> run_lines(splitlines(source), e, Machine(sc0)), env |-> e]

(***************************************************************************)
(* The inputs the operations are given.                                    *)
(***************************************************************************)
Names == {"x", "y"}

Values == {IntV(1), IntV(2)}

Lines ==
  << "let x = 1", "let y = x", "let x = y", "shout x", "shout y", "let x",
     "hello", "reveal_vars", "set_var x 7", "set_var z 7", "set_var x", "set_var x q",
     MAGIC, " sudo%20Init%20superusermode\t" >>

Sources ==
  Lines \o
  << "let x = 1\nlet y = x\nshout y",
     "let x = 1\nlet x = y\nshout x",
     "shout x\nlet x\nlet y = 2\n",
     "let x = 1\nset_var x 7\nreveal_vars\n" \o MAGIC \o "\nreveal_vars\nset_var x 7\nshout x",
     "let x = 2\nlet y = [x, \"a b\", true]\nshout y\nsudo%20init%20superusermode\nset_var y 0_9\nreveal_vars\nset_var y",
     "" >>

\* sources of the superuser commands, for run on any environment
Commands ==
  << "let x = 1", "shout x", MAGIC, "reveal_vars", "let reveal_vars = 3",
     "set_var x 7", "set_var x -3", "set_var z 7",
     "set_var", "set_var x", "set_var x 1 2", "set_var x q",
     MAGIC \o "\nset_var x 0_9\nshout x",
     "let x = 2\n" \o MAGIC \o "\n set_var x +4 \nset_var y 5\nshout x" >>

\* what the REPL's input() returns: one line
Inputs == Lines \o << "exit", " Exit " >>

\* counter = counter + 1 while counter < N
WhileLt(N) ==
  While(BinOp(Var("counter"), "<", Number(N)),
        <<Assign("counter", BinOp(Var("counter"), "+", Number(1)))>>)

Programs ==
  << Let("a", Number(5)),
     Let("counter", Number(0)),
     FuncDef("f", <<"a">>, <<PrintNode(Var("a"))>>),
     FuncCall("f", <<>>),
     FuncCall("f", <<Number(10)>>) >>
  \o [N \in 1..(MaxN + 1) |-> WhileLt(N - 1)]

\* the operators of BinOp.eval, and one it does not know
Operators == <<"+", "-", "*", "/", "%", "==", "!=", ">", "<", ">=", "<=", "&&", "||", "**">>

\* operand nodes: falsy and truthy literals, and a variable that is not defined
Operands ==
  << Number(0), Number(3), String("s"), Boolean(TRUE), Boolean(FALSE), Var("zz") >>

\* the parts of the If nodes evaluated: conditions that are truthy, falsy, or
\* a variable a branch declares; then-bodies; no else-body and one
Conditions ==
  << Boolean(TRUE), Boolean(FALSE), Number(0), String("s"), Var("t"), Var("e") >>

ThenBodies ==
  << <<Let("t", Number(1)), PrintNode(Var("t"))>>,
     <<PrintNode(String("then")), Let("u", Var("t"))>> >>

ElseBodies ==
  << <<>>,
     <<Let("e", Number(0)), PrintNode(Var("e"))>> >>

\* every If of those parts
IfPrograms ==
  [i \in 1..(Len(Conditions) * Len(ThenBodies) * Len(ElseBodies)) |->
     If(Conditions[((i - 1) % Len(Conditions)) + 1],
        ThenBodies[(((i - 1) \div Len(Conditions)) % Len(ThenBodies)) + 1],
        ElseBodies[((i - 1) \div (Len(Conditions) * Len(ThenBodies))) + 1])]

\* statements that end a function body, one of each kind that gives no value
LastStatements ==
  << Let("t", Number(1)),
     Assign("x", Number(8)),
     PrintNode(Number(1)),
     FuncDef("n", <<>>, <<Number(2)>>),
     If(Boolean(TRUE), <<Number(3)>>, <<Number(4)>>),
     While(Boolean(FALSE), <<Number(5)>>) >>

\* the programs of function calls: definitions, and calls of them
CallPrograms ==
  << Let("x", Number(5)),
     Let("a", Number(6)),
     FuncDef("g", <<"p">>, <<Let("a", Var("p")), Assign("x", Var("a"))>>),
     FuncCall("g", <<Number(1)>>),
     FuncDef("k", <<"p", "q">>, <<Let("t", BinOp(Var("p"), "+", Number(1))), Var("t")>>),
     FuncCall("k", <<Var("x"), Number(2), Var("zz")>>),
     FuncCall("k", <<Number(4)>>),
     FuncCall("m", <<>>),
     FuncCall("os", <<>>),
     FuncCall("nosuch", <<Number(1)>>) >>
  \o [i \in 1..Len(LastStatements) |-> FuncDef("m", <<>>, <<Number(7), LastStatements[i]>>)]
  \o << FuncDef("m", <<>>, <<>>) >>

(***************************************************************************)
(* The state: the arena of scopes, and what the last operation did: the    *)
(* lines it printed, the exception it raised, the value it returned, the   *)
(* nodes it evaluated, the call scopes it dropped, the arena it began with *)
(* (pre) and the operation itself (op).  past is history: whether a line   *)
(* given to run on the session's environment before the last operation was *)
(* the magic token, and the exception the operation before the last raised.*)
(***************************************************************************)
NoOp == [name |-> "init", env |-> 0, src |-> "", prog |-> 0, value |-> NoneV, ret |-> 0]

\* the line is the magic token, surrounding whitespace and letter case aside
IsMagicLine(line) == lower(strip(line)) = "sudo%20init%20superusermode"

HasMagicLine(source) ==
  \E j \in 1..Len(splitlines(source)) : IsMagicLine(splitlines(source)[j])

Init ==
  /\ scopes = <<Env(0)>>
  /\ out = <<>>
  /\ err = NoErr
  /\ val = NoneV
  /\ log = <<>>
  /\ frames = <<>>
  /\ pre = <<Env(0)>>
  /\ op = NoOp
  /\ past = [magic |-> FALSE, err |-> NoErr]
  /\ nops = 0
  /\ alive = TRUE

Step(o, before, M) ==
  /\ scopes' = M.scopes
  /\ out' = M.out
  /\ err' = M.err
  /\ val' = M.val
  /\ log' = M.log
  /\ frames' = M.frames
  /\ pre' = before
  /\ op' = o
  /\ past' = [magic |-> o.env # 0 /\ (past.magic \/ (op.name \in {"run", "repl"} /\ HasMagicLine(op.src))),
              err |-> err]
  /\ nops' = nops + 1
  /\ UNCHANGED alive

\* Env(parent)
NewEnv(parent, bound) ==
  /\ nops < bound
  /\ Len(scopes) < MaxScopes
  /\ Step([NoOp EXCEPT !.name = "Env", !.env = parent, !.ret = Len(scopes) + 1], scopes,
          Machine(Append(scopes, Env(parent))))

\* env.get(name)
Get(env, name) ==
  /\ nops < MaxEnvOps
  /\ LET r == Env_get(scopes, env, name)
     IN Step([NoOp EXCEPT !.name = "get", !.env = env, !.src = name], scopes,
             [Machine(scopes) EXCEPT !.err = r.err, !.val = r.val])

\* env.set(name, value)
Set(env, name, value) ==
  /\ nops < MaxEnvOps
  /\ LET r == Env_set(scopes, env, name, value)
     IN Step([NoOp EXCEPT !.name = "set", !.env = env, !.src = name, !.value = value], scopes,
             [Machine(r.scopes) EXCEPT !.err = r.err])

\* env.declare(name, value)
Declare(env, name, value) ==
  /\ nops < MaxEnvOps
  /\ Step([NoOp EXCEPT !.name = "declare", !.env = env, !.src = name, !.value = value], scopes,
          Machine(Env_declare(scopes, env, name, value)))

\* Assign(name, Number(n)).eval(env)
EvalAssign(env, name, value) ==
  /\ nops < MaxEnvOps
  /\ Step([NoOp EXCEPT !.name = "assign", !.env = env, !.src = name, !.value = value], scopes,
          Eval(Assign(name, Number(value.n)), env, Machine(scopes), MaxFuel))

\* Programs[i].eval(env)
EvalNode(i, env) ==
  /\ nops < MaxEvalOps
  /\ Step([NoOp EXCEPT !.name = "eval", !.env = env, !.prog = i], scopes,
          Eval(Programs[i], env, Machine(scopes), MaxFuel))

\* CallPrograms[i].eval(env)
EvalCall(i, env) ==
  /\ nops < MaxCallOps
  /\ Step([NoOp EXCEPT !.name = "call", !.env = env, !.prog = i], scopes,
          Eval(CallPrograms[i], env, Machine(scopes), MaxFuel))

\* the step of a call of run that gave r
Ran(name, env, source, before, r) ==
  Step([NoOp EXCEPT !.name = name, !.env = env, !.src = source, !.ret = r.env], before, r.M)

\* run(source, env) on the session's environment
RunEnv(source) ==
  /\ nops < MaxRunOps
  /\ Ran("run", 1, source, scopes, run(source, 1, scopes))

\* BinOp(Operands[l], o, Operands[r]).eval(env); the operation keeps o as
\* src, l as prog and r as ret
EvalBinOp(o, l, r, env) ==
  /\ nops < MaxBinOps
  /\ Step([NoOp EXCEPT !.name = "binop", !.env = env, !.src = o, !.prog = l, !.ret = r], scopes,
          Eval(BinOp(Operands[l], o, Operands[r]), env, Machine(scopes), MaxFuel))

\* IfPrograms[i].eval(env)
EvalIf(i, env) ==
  /\ nops < MaxIfOps
  /\ Step([NoOp EXCEPT !.name = "if", !.env = env, !.prog = i], scopes,
          Eval(IfPrograms[i], env, Machine(scopes), MaxFuel))

\* run(source, env) on an environment of the arena
RunIn(source, env) ==
  /\ nops < MaxSuperOps
  /\ Ran("super", env, source, scopes, run(source, env, scopes))

\* env = run(source): a new session, the caller keeps the environment returned
RunNew(source) ==
  /\ nops < MaxRunOps
  /\ Ran("run", 0, source, <<Env(0)>>, run(source, 0, <<>>))

\* the REPL's "except Exception as e: print('Error:', e)"
repl_except(M) == [M EXCEPT !.out = Append(@, "Error: " \o M.err.msg)]

\* "try: env = run(code, env)", r being what run gave
repl_try(r) == IF Ok(r.M) THEN r ELSE [r EXCEPT !.M = repl_except(@)]

\* one turn of the REPL loop: input, the exit test, run, except.  err keeps
\* the exception that left run; the loop itself goes on.
Repl(code) ==
  /\ alive
  /\ nops < MaxRunOps
  /\ IF lower(strip(code)) = "exit"
     THEN /\ alive' = FALSE
          /\ op' = [NoOp EXCEPT !.name = "exit", !.src = code]
          /\ pre' = scopes
          /\ out' = <<>>
          /\ err' = NoErr
          /\ val' = NoneV
          /\ log' = <<>>
          /\ frames' = <<>>
          /\ past' = [magic |-> past.magic \/ (op.name \in {"run", "repl"} /\ HasMagicLine(op.src)),
                      err |-> err]
          /\ nops' = nops + 1
          /\ UNCHANGED scopes
     ELSE Ran("repl", 1, code, scopes, repl_try(run(code, 1, scopes)))

NextEnv ==
  \/ \E parent \in 1..Len(scopes) : NewEnv(parent, MaxEnvOps)
  \/ \E env \in 1..Len(scopes), name \in Names : Get(env, name)
  \/ \E env \in 1..Len(scopes), name \in Names, value \in Values : Set(env, name, value)
  \/ \E env \in 1..Len(scopes), name \in Names, value \in Values : Declare(env, name, value)
  \/ \E env \in 1..Len(scopes), name \in Names, value \in Values : EvalAssign(env, name, value)

NextEval ==
  \/ \E parent \in 1..Len(scopes) : NewEnv(parent, MaxEvalOps)
  \/ \E i \in 1..Len(Programs), env \in 1..Len(scopes) : EvalNode(i, env)

NextRun ==
  \/ \E i \in 1..Len(Sources) : RunEnv(Sources[i])
  \/ \E i \in 1..Len(Sources) : RunNew(Sources[i])
  \/ \E i \in 1..Len(Inputs) : Repl(Inputs[i])

NextCall ==
  \/ \E parent \in 1..Len(scopes) : NewEnv(parent, MaxCallOps)
  \/ \E i \in 1..Len(CallPrograms), env \in 1..Len(scopes) : EvalCall(i, env)

NextSuper ==
  \/ \E parent \in 1..Len(scopes) : NewEnv(parent, MaxSuperOps)
  \/ \E i \in 1..Len(Commands), env \in 1..Len(scopes) : RunIn(Commands[i], env)

NextBinOp ==
  \E o \in 1..Len(Operators), l \in 1..Len(Operands), r \in 1..Len(Operands) :
    EvalBinOp(Operators[o], l, r, 1)

NextIf ==
  \/ \E parent \in 1..Len(scopes) : NewEnv(parent, MaxIfOps)
  \/ \E i \in 1..Len(IfPrograms), env \in 1..Len(scopes) : EvalIf(i, env)

Next == NextEnv \/ NextEval \/ NextRun \/ NextCall \/ NextSuper \/ NextBinOp \/ NextIf

SpecEnv == Init /\ [][NextEnv]_vars

SpecEval == Init /\ [][NextEval]_vars

SpecRun == Init /\ [][NextRun]_vars

SpecCall == Init /\ [][NextCall]_vars

SpecSuper == Init /\ [][NextSuper]_vars

SpecBinOp == Init /\ [][NextBinOp]_vars

SpecIf == Init /\ [][NextIf]_vars

Spec == Init /\ [][Next]_vars

\* no evaluation of the model runs out of fuel or leaves what the model computes
Modelled == err.type \notin {"ModelFuel", "Unmodelled"}

(***************************************************************************)
(* The scope chain, as the properties speak of it.                         *)
(***************************************************************************)
\* the scopes from env up to the root, nearest first
RECURSIVE ScopeChain(_, _)
ScopeChain(sc, env) == IF env = 0 THEN <<>> ELSE <<env>> \o ScopeChain(sc, sc[env].parent)

\* the nearest scope of env's chain that holds name, 0 when none does
Nearest(sc, env, name) ==
  LET c == ScopeChain(sc, env)
  IN IF \E i \in 1..Len(c) : Has(sc[c[i]].vars, name)
     THEN c[CHOOSE i \in 1..Len(c) :
              /\ Has(sc[c[i]].vars, name)
              /\ \A j \in 1..(i - 1) : ~Has(sc[c[j]].vars, name)]
     ELSE 0

DeclaredNames(sc, s) == {sc[s].vars[i].name : i \in 1..Len(sc[s].vars)}

ValueOf(sc, s, name) == At(sc[s].vars, name).value

\* the scope but for its variables
Rest(scope) == [scope EXCEPT !.vars = <<>>]

\* C3: Env.set, and an Assign node, changes the binding of the name in the
\* nearest scope of the chain that holds it and nothing else; when no scope
\* holds the name it fails with the undefined-variable error and no scope
\* gains a name.
C3_SetNearest ==
  op.name \in {"set", "assign"} =>
    LET h == Nearest(pre, op.env, op.src)
    IN /\ Len(scopes) = Len(pre)
       /\ \A s \in 1..Len(pre) :
            /\ DeclaredNames(scopes, s) = DeclaredNames(pre, s)
            /\ Rest(scopes[s]) = Rest(pre[s])
       /\ IF h # 0
          THEN /\ err = NoErr
               /\ ValueOf(scopes, h, op.src) = op.value
               /\ \A s \in 1..Len(pre) : \A n \in DeclaredNames(pre, s) :
                    (s # h \/ n # op.src) => ValueOf(scopes, s, n) = ValueOf(pre, s, n)
          ELSE /\ err = Error("NameError", "Variable '" \o op.src \o "' not defined")
               /\ scopes = pre

\* a set from a scope that lacks the name, changing the value in the nearer of
\* two ancestors that hold it
C3_Witness ==
  /\ op.name \in {"set", "assign"}
  /\ err = NoErr
  /\ LET h == Nearest(pre, op.env, op.src)
     IN /\ h \notin {0, op.env}
        /\ pre[h].parent # 0
        /\ Nearest(pre, pre[h].parent, op.src) # 0
        /\ ValueOf(pre, h, op.src) # op.value
        /\ ValueOf(scopes, h, op.src) = op.value

\* C4: declare on a child scope creates or overwrites the name in the child
\* only; every other scope is unchanged, get from the child gives the new
\* value and get from the parent gives what it gave before.
C4_DeclareShadows ==
  (op.name = "declare" /\ pre[op.env].parent # 0) =>
    /\ err = NoErr
    /\ Len(scopes) = Len(pre)
    /\ \A s \in 1..Len(pre) : s # op.env => scopes[s] = pre[s]
    /\ Rest(scopes[op.env]) = Rest(pre[op.env])
    /\ DeclaredNames(scopes, op.env) = DeclaredNames(pre, op.env) \cup {op.src}
    /\ \A n \in DeclaredNames(pre, op.env) \ {op.src} :
         ValueOf(scopes, op.env, n) = ValueOf(pre, op.env, n)
    /\ Env_get(scopes, op.env, op.src) = [err |-> NoErr, val |-> op.value]
    /\ Env_get(scopes, pre[op.env].parent, op.src) = Env_get(pre, pre[op.env].parent, op.src)

\* a declare on a child of a name an ancestor holds with another value
C4_Witness ==
  /\ op.name = "declare"
  /\ pre[op.env].parent # 0
  /\ Nearest(pre, pre[op.env].parent, op.src) # 0
  /\ Env_get(scopes, pre[op.env].parent, op.src).val # op.value
  /\ Env_get(scopes, op.env, op.src).val = op.value

\* C5: get returns the value of the name in the nearest scope of the chain
\* that holds it, fails with the undefined-variable error exactly when no
\* scope of the chain holds it, and changes no scope.
C5_GetNearest ==
  op.name = "get" =>
    LET h == Nearest(pre, op.env, op.src)
    IN /\ scopes = pre
       /\ (err.type = "NameError") <=> (h = 0)
       /\ h = 0 => err = Error("NameError", "Variable '" \o op.src \o "' not defined")
       /\ h # 0 => err = NoErr /\ val = ValueOf(pre, h, op.src)

\* a get answered by a grandparent
C5_Witness ==
  /\ op.name = "get"
  /\ err = NoErr
  /\ LET h == Nearest(pre, op.env, op.src)
     IN /\ h # 0
        /\ pre[op.env].parent \notin {0, h}
        /\ h # op.env
        /\ val = ValueOf(pre, h, op.src)

(***************************************************************************)
(* The lines of the last run, as the properties speak of them.             *)
(***************************************************************************)
IsRunOp == op.name \in {"run", "repl"}

OpLines == splitlines(op.src)

\* the run after the first j lines of the source, or at the line that raised
After(j) == run_lines(SubSeq(OpLines, 1, j), 1, Machine(pre))

\* line j is reached: no line before it raised
Reached(j) == Ok(After(j - 1))

IsCommandLine(line) ==
  startswith(strip(line), "reveal_vars") \/ startswith(strip(line), "set_var")

\* let <name> = <expr>
IsLetLine(line) == startswith(strip(line), "let ") /\ Find(strip(line), "=") > 0

\* shout <expr>
IsShoutLine(line) == startswith(strip(line), "shout ")

\* C1: while no line given to run on the environment has been the magic
\* token, a line that begins with reveal_vars or set_var prints nothing,
\* raises nothing and changes no scope.
C1_SuperuserGate ==
  IsRunOp =>
    \A j \in 1..Len(OpLines) :
      (/\ ~past.magic
       /\ \A i \in 1..(j - 1) : ~IsMagicLine(OpLines[i])
       /\ IsCommandLine(OpLines[j])
       /\ Reached(j))
      => After(j) = After(j - 1)

\* set_var on a variable the session holds, with no magic token so far
C1_Witness ==
  /\ op.name = "run"
  /\ ~past.magic
  /\ op.src = "set_var x 7"
  /\ Has(pre[1].vars, "x")
  /\ ValueOf(pre, 1, "x") # IntV(7)
  /\ scopes = pre
  /\ out = <<>>
  /\ err = NoErr

\* C2: a line that is the magic token sets the superuser flag, and a flag
\* that is set stays set after every later line and every later run on the
\* same environment.
C2_SuperuserLatch ==
  IsRunOp =>
    /\ \A j \in 1..Len(OpLines) :
         /\ (Reached(j) /\ IsMagicLine(OpLines[j])) => After(j).scopes[1].superuser
         /\ After(j - 1).scopes[1].superuser => After(j).scopes[1].superuser
    /\ scopes = After(Len(OpLines)).scopes
    /\ (op.env # 0 /\ pre[1].superuser) => scopes[1].superuser

\* a later run that repeats the token on an environment whose flag an
\* earlier run set
C2_Witness ==
  /\ IsRunOp
  /\ op.env = 1
  /\ past.magic
  /\ pre[1].superuser
  /\ HasMagicLine(op.src)
  /\ scopes[1].superuser

\* C6: a call with no arguments of f(a) with the body "shout a" ends in the
\* undefined-variable error, whatever the caller's chain holds.
C6_UnboundParameter ==
  (/\ op.name = "eval"
   /\ Programs[op.prog].kind = "FuncCall"
   /\ Len(Programs[op.prog].args) = 0
   /\ Env_get_func(pre, op.env, "f").err = NoErr)
  => (err = Error("NameError", "Variable 'a' not defined") /\ out = <<>>)

\* C7: in a session that is given no magic token, a line that is neither
\* "let <name> = <expr>" nor "shout <expr>" gives no node and no error, and
\* running it prints nothing and changes nothing.
C7_OtherLinesIgnored ==
  (IsRunOp /\ ~past.magic /\ ~HasMagicLine(op.src)) =>
    \A j \in 1..Len(OpLines) :
      (Reached(j) /\ ~IsLetLine(OpLines[j]) /\ ~IsShoutLine(OpLines[j])) =>
        /\ parse_line(OpLines[j]).err = NoErr
        /\ parse_line(OpLines[j]).node.kind = "None"
        /\ After(j) = After(j - 1)

\* the times the body of the loop was evaluated
Bodies == Cardinality({i \in 1..Len(log) : log[i].kind = "Assign"})

\* C8: the loop "while counter < N: counter = counter + 1" entered with
\* counter = 0 evaluates its body N times and leaves counter = N; entered
\* with counter >= N it evaluates its body no time and changes nothing.
C8_WhileCounts ==
  (op.name = "eval" /\ Programs[op.prog].kind = "While") =>
    LET N == Programs[op.prog].cond.right.value.n
        c == Env_get(pre, op.env, "counter")
    IN c.err = NoErr =>
         /\ c.val = IntV(0) =>
              /\ err = NoErr
              /\ Bodies = N
              /\ Env_get(scopes, op.env, "counter").val = IntV(N)
         /\ c.val.n >= N =>
              /\ err = NoErr
              /\ Bodies = 0
              /\ scopes = pre

\* the loop of N = 3 entered with counter = 0
C8_Witness ==
  /\ op.name = "eval"
  /\ Programs[op.prog].kind = "While"
  /\ Programs[op.prog].cond.right.value.n = 3
  /\ Env_get(pre, op.env, "counter").val = IntV(0)
  /\ Env_get(pre, op.env, "counter").err = NoErr
  /\ Bodies = 3
  /\ Env_get(scopes, op.env, "counter").val = IntV(3)

\* C9: an exception of a line leaves run as it was raised; the failing
\* statement changes nothing, what the lines before it did is kept, the lines
\* after it are not run, the REPL goes on, and a later run on the environment
\* works on the kept state.
C9_ErrorSurvival ==
  IsRunOp =>
    /\ \A j \in 1..Len(OpLines) :
         (Reached(j) /\ ~Ok(After(j))) =>
           /\ err = After(j).err
           /\ err.type \in {"NameError", "ValueError"}
           /\ (IsShoutLine(OpLines[j]) \/ IsLetLine(OpLines[j])) =>
                err.type = "NameError" /\ startswith(err.msg, "Variable '")
           /\ After(j).scopes = After(j - 1).scopes
           /\ scopes = After(j - 1).scopes
           /\ out = IF op.name = "repl"
                    THEN Append(After(j - 1).out, "Error: " \o err.msg)
                    ELSE After(j - 1).out
    /\ op.name = "repl" => alive
    /\ (past.err # NoErr /\ op.env = 1) =>
         LET r == run(op.src, 1, pre)
         IN r.env = 1 /\ scopes = r.M.scopes /\ err = r.M.err

\* after a run that raised at its second line, a run that prints the variable
\* the first line declared
C9_Witness ==
  /\ op.name = "run"
  /\ op.env = 1
  /\ past.err.type = "NameError"
  /\ Has(pre[1].vars, "x")
  /\ op.src = "shout x"
  /\ err = NoErr
  /\ out = <<"1">>

\* the sources run after a run
Followups == Sources

\* C10: run returns the environment it was given, so a run of A that returns
\* followed by a run of B on the environment returned leaves the variables,
\* the flag and the output of one run of the lines of A and then of B.
C10_SessionPersistence ==
  (op.name = "run" /\ err = NoErr) =>
    /\ op.env # 0 => op.ret = op.env
    /\ \A i \in 1..Len(Followups) :
         LET two == run(Followups[i], op.ret, scopes)
             one == run(op.src \o "\n" \o Followups[i], op.env, IF op.env = 0 THEN <<>> ELSE pre)
         IN /\ two.env = op.ret
            /\ one.env = op.ret
            /\ two.M.scopes = one.M.scopes
            /\ out \o two.M.out = one.M.out
            /\ two.M.err = one.M.err

\* a run that declared a variable and set the flag, which a later source reads
C10_Witness ==
  /\ op.name = "run"
  /\ op.env = 1
  /\ err = NoErr
  /\ scopes[1].superuser
  /\ Has(scopes[1].vars, "x")
  /\ run("set_var x 7\nshout x", op.ret, scopes).M.out = <<"[SUPERUSER] x set to 7", "7">>

\* the last operation evaluated a call of name where the call resolves it
IsCallOf(name) ==
  /\ op.name = "call"
  /\ CallPrograms[op.prog].kind = "FuncCall"
  /\ CallPrograms[op.prog].name = name
  /\ Env_get_func(pre, op.env, name).err = NoErr

\* after differs from before in the value of name in scope h and nowhere else
OnlyChanged(before, after, h, name, value) ==
  /\ Len(after) = Len(before)
  /\ \A s \in 1..Len(before) : s # h => after[s] = before[s]
  /\ Rest(after[h]) = Rest(before[h])
  /\ DeclaredNames(after, h) = DeclaredNames(before, h)
  /\ \A n \in DeclaredNames(before, h) :
       ValueOf(after, h, n) = IF n = name THEN value ELSE ValueOf(before, h, n)

\* C11: a call of g(p) = { let a = p; a's value assigned to x } runs its
\* body in one new child scope whose parent is the scope of the call; the
\* Let declares a in that child only, so no scope of the caller's chain
\* gains or changes a binding by it; the Assign to x, which is no parameter
\* and not declared in the body, changes x in the nearest scope of the
\* caller's chain that holds it, and the change is there after the return
\* (when no scope holds x the call fails and changes nothing).
C11_CallScope ==
  IsCallOf("g") =>
    LET child == Len(pre) + 1
        h == Nearest(pre, op.env, "x")
    IN /\ Len(frames) = 1
       /\ frames[1].parent = op.env
       /\ DeclaredNames(<<frames[1]>>, 1) = {"p", "a"}
       /\ ValueOf(<<frames[1]>>, 1, "a") = IntV(1)
       /\ \A i \in 1..Len(log) :
            log[i].env = IF log[i].kind \in {"Let", "Assign", "Var"} THEN child ELSE op.env
       /\ \E i \in 1..Len(log) : log[i].kind = "Let"
       /\ IF h = 0
          THEN err.type = "NameError" /\ scopes = pre
          ELSE err = NoErr /\ OnlyChanged(pre, scopes, h, "x", IntV(1))

\* a call from a child scope, x held by its parent: the parent's x is changed
C11_Witness ==
  /\ IsCallOf("g")
  /\ op.env = 2
  /\ Nearest(pre, op.env, "x") = 1
  /\ ValueOf(pre, 1, "x") = IntV(5)
  /\ ValueOf(scopes, 1, "x") = IntV(1)
  /\ frames[1].parent = 2

\* the kinds and names of the nodes evaluated, in the order of evaluation
Trace == [i \in 1..Len(log) |-> <<log[i].kind, log[i].name>>]

\* the body statement that ends the body of function name, a None node for none
LastOf(name) ==
  LET body == Env_get_func(pre, op.env, name).body
  IN IF Len(body) = 0 THEN NoneNode ELSE body[Len(body)]

\* C12: a call evaluates its arguments in the caller's scope and binds them
\* by position to the first min(#parameters, #arguments) parameters: an
\* argument beyond the parameters is never evaluated, a parameter beyond the
\* arguments is unbound in the child scope.  The body statements run in
\* list order and the call returns the value of the last one: for
\* k(p, q) = { let t = p + 1; t } that is p + 1, and for a body that is
\* empty or ends in a Let, Assign, Print, FuncDef, If or While it is None.
C12_BindAndReturn ==
  /\ (IsCallOf("k") /\ Len(CallPrograms[op.prog].args) = 3) =>
       LET x == Env_get(pre, op.env, "x")
       IN IF x.err # NoErr
          THEN /\ err = x.err
               /\ Trace = << <<"FuncCall", "k">>, <<"Var", "x">> >>
               /\ frames[1].vars = <<>>
          ELSE /\ err = NoErr
               /\ val = IntV(x.val.n + 1)
               /\ Trace = << <<"FuncCall", "k">>, <<"Var", "x">>, <<"Number", "">>,
                             <<"Let", "t">>, <<"BinOp", "+">>, <<"Var", "p">>, <<"Number", "">>,
                             <<"Var", "t">> >>
               /\ \A i \in 1..3 : log[i].env = op.env
               /\ \A i \in 4..8 : log[i].env = Len(pre) + 1
               /\ DeclaredNames(<<frames[1]>>, 1) = {"p", "q", "t"}
               /\ ValueOf(<<frames[1]>>, 1, "p") = x.val
               /\ ValueOf(<<frames[1]>>, 1, "q") = IntV(2)
               /\ scopes = pre
  /\ (IsCallOf("k") /\ Len(CallPrograms[op.prog].args) = 1) =>
       /\ err = NoErr
       /\ val = IntV(5)
       /\ DeclaredNames(<<frames[1]>>, 1) = {"p", "t"}
       /\ ValueOf(<<frames[1]>>, 1, "p") = IntV(4)
       /\ scopes = pre
  /\ (IsCallOf("m") /\ err = NoErr) =>
       /\ LastOf("m").kind \in {"NoneNode", "Let", "Assign", "Print", "FuncDef", "If", "While"}
       /\ val = NoneV
       /\ Len(Env_get_func(pre, op.env, "m").body) = 2 =>
            /\ log[2] = [kind |-> "Number", env |-> Len(pre) + 1, name |-> ""]
            /\ log[3].kind = LastOf("m").kind
            /\ log[3].env = Len(pre) + 1

\* a call of k with three arguments from a scope that reads x = 5: it gives 6
C12_Witness ==
  /\ IsCallOf("k")
  /\ Len(CallPrograms[op.prog].args) = 3
  /\ Env_get(pre, op.env, "x").val = IntV(5)
  /\ val = IntV(6)
  /\ frames[1].parent = op.env

\* a call of a function whose body ends in an If after a Number: it gives None
C12_WitnessNone ==
  /\ IsCallOf("m")
  /\ LastOf("m").kind = "If"
  /\ err = NoErr
  /\ val = NoneV
  /\ Len(log) > 3

\* the last operation evaluated a call of a name that no scope of the chain defines
IsUnresolvedCall ==
  /\ op.name = "call"
  /\ CallPrograms[op.prog].kind = "FuncCall"
  /\ Env_get_func(pre, op.env, CallPrograms[op.prog].name).err # NoErr

\* C13: a call of a function name that no scope of the chain defines fails
\* with an error (whatever its type, it is taken for the undefined-function
\* error), returns no value and leaves the environment as it was.
C13_UndefinedFunction ==
  IsUnresolvedCall =>
    /\ err # NoErr
    /\ val = NoneV
    /\ scopes = pre

\* the run of the last operation after its first j lines, or at the line that raised
AfterIn(j) == run_lines(SubSeq(OpLines, 1, j), op.env, Machine(pre))

\* line j of the last run is reached with superuser mode on, and is a
\* set_var line: w are its words
SetVarAt(j, w) ==
  /\ Ok(AfterIn(j - 1))
  /\ AfterIn(j - 1).scopes[op.env].superuser
  /\ startswith(strip(OpLines[j]), "set_var")
  /\ w = splitws(OpLines[j])

\* what a set_var line j of words w = <<set_var, name, int>> does in superuser
\* mode, shown being the text of the integer in the line printed
SetVarEffect(j, w, shown) ==
  LET before == AfterIn(j - 1)
      after == AfterIn(j)
      h == Nearest(before.scopes, op.env, w[2])
  IN IF h = 0
     THEN /\ after.err = Error("NameError", "Variable '" \o w[2] \o "' not defined")
          /\ after.out = before.out
          /\ after.scopes = before.scopes
     ELSE /\ after.err = NoErr
          /\ OnlyChanged(before.scopes, after.scopes, h, w[2], IntV(IntOf(w[3])))
          /\ after.out = Append(before.out, "[SUPERUSER] " \o w[2] \o " set to " \o shown)

\* C14 as worded, the value printed being the integer the variable is set
\* to: in superuser mode "set_var <name> <int>" sets <name> in the nearest
\* scope that holds it and prints "[SUPERUSER] <name> set to <value>", and
\* fails with the undefined-variable error, printing and changing nothing,
\* when no scope holds the name.
C14_PrintsValue ==
  op.name = "super" =>
    \A j \in 1..Len(OpLines) :
      LET w == splitws(OpLines[j])
      IN (SetVarAt(j, w) /\ Len(w) = 3 /\ IsIntLiteral(w[3])) =>
           SetVarEffect(j, w, IntStr(IntOf(w[3])))

\* C14: in superuser mode the line "set_var <name> <int>" sets the variable
\* <name> to that integer in the nearest scope of the chain that holds it,
\* changes nothing else, and prints "[SUPERUSER] <name> set to <int>" with
\* the integer as the line writes it; when no scope holds the name it fails
\* with the undefined-variable error, prints nothing and changes no scope.
C14_SetVar ==
  op.name = "super" =>
    \A j \in 1..Len(OpLines) :
      LET w == splitws(OpLines[j])
      IN (SetVarAt(j, w) /\ Len(w) = 3 /\ IsIntLiteral(w[3])) =>
           SetVarEffect(j, w, w[3])

\* a run on a child scope entered superuser mode and set the x of its
\* parent to 9, the line writing the integer as 0_9
C14_Witness ==
  /\ op.name = "super"
  /\ op.env = 2
  /\ op.src = MAGIC \o "\nset_var x 0_9\nshout x"
  /\ Nearest(pre, 2, "x") = 1
  /\ ValueOf(pre, 1, "x") = IntV(1)
  /\ ValueOf(scopes, 1, "x") = IntV(9)
  /\ out = <<"[SUPERUSER MODE ACTIVATED]", "[SUPERUSER] x set to 0_9", "9">>

\* C15: in superuser mode a set_var line of the wrong shape, its words after
\* set_var being fewer or more than two or its value word no integer
\* literal, raises the error of a malformed command (a ValueError) to the
\* caller of run, changes no scope and prints nothing.
C15_MalformedSetVar ==
  op.name = "super" =>
    \A j \in 1..Len(OpLines) :
      LET w == splitws(OpLines[j])
      IN (SetVarAt(j, w) /\ (Len(w) # 3 \/ ~IsIntLiteral(w[3]))) =>
           /\ AfterIn(j).err.type = "ValueError"
           /\ AfterIn(j).scopes = AfterIn(j - 1).scopes
           /\ AfterIn(j).out = AfterIn(j - 1).out
           /\ j = Len(OpLines) => err.type = "ValueError" /\ scopes = pre

\* a set_var line of three arguments raised in superuser mode, x held its value
C15_Witness ==
  /\ op.name = "super"
  /\ op.src = "set_var x 1 2"
  /\ pre[op.env].superuser
  /\ Nearest(pre, op.env, "x") # 0
  /\ err = Error("ValueError", "too many values to unpack (expected 3)")
  /\ out = <<>>
  /\ scopes = pre

\* C16: BinOp evaluates its left operand first and then, the left having
\* raised nothing, always its right operand, whatever the operator: with an
\* undefined variable on the right the undefined-variable error is raised
\* for every operator and every left value, "false && zz" and "true || zz"
\* included.  For && the value is the left operand's when that is falsy
\* and the right operand's otherwise; for || the left operand's when that
\* is truthy and the right operand's otherwise.
C16_NoShortCircuit ==
  op.name = "binop" =>
    LET L == Operands[op.prog]
        R == Operands[op.ret]
        undefined == Error("NameError", "Variable 'zz' not defined")
    IN /\ log[1] = [kind |-> "BinOp", env |-> op.env, name |-> op.src]
       /\ log[2].kind = L.kind
       /\ IF L.kind = "Var"
          THEN Len(log) = 2 /\ err = undefined
          ELSE /\ Len(log) = 3
               /\ log[3].kind = R.kind
               /\ R.kind = "Var" => err = undefined /\ val = NoneV
               /\ (R.kind # "Var" /\ op.src = "&&") =>
                    err = NoErr /\ val = IF Truthy(L.value) THEN R.value ELSE L.value
               /\ (R.kind # "Var" /\ op.src = "||") =>
                    err = NoErr /\ val = IF Truthy(L.value) THEN L.value ELSE R.value
       /\ scopes = pre

\* false && zz: the right operand was evaluated and raised
C16_Witness ==
  /\ op.name = "binop"
  /\ op.src = "&&"
  /\ Operands[op.prog] = Boolean(FALSE)
  /\ Operands[op.ret] = Var("zz")
  /\ log[3] = [kind |-> "Var", env |-> 1, name |-> "zz"]
  /\ err.type = "NameError"

\* the nodes a statement "let n = leaf" or "shout leaf" evaluates, in order
NodeTrace(node) ==
  << <<node.kind, IF node.kind = "Let" THEN node.name ELSE "">>,
     <<node.expr.kind, IF node.expr.kind = "Var" THEN node.expr.name ELSE "">> >>

RECURSIVE BodyTrace(_)
BodyTrace(body) ==
  IF Len(body) = 0 THEN <<>> ELSE NodeTrace(Head(body)) \o BodyTrace(Tail(body))

IsPrefix(a, b) == Len(a) <= Len(b) /\ a = SubSeq(b, 1, Len(a))

\* C17: If evaluates its condition once and then the statements of one
\* branch, in list order and in the scope of the If: the then-body when the
\* condition is truthy, the else-body otherwise (nothing when it is empty).
\* No scope is made, so a variable a Let of the branch declares is held by
\* the scope of the If afterwards; the If gives no value.  (When the
\* condition or a statement raises, what was evaluated is the beginning of
\* that sequence.)
C17_IfBranch ==
  op.name = "if" =>
    LET node == IfPrograms[op.prog]
        c == IF node.cond.kind = "Var"
             THEN Env_get(pre, op.env, node.cond.name)
             ELSE [err |-> NoErr, val |-> node.cond.value]
        chosen == IF Truthy(c.val) THEN node.true_body ELSE node.false_body
        expected == << <<"If", "">>, <<node.cond.kind, IF node.cond.kind = "Var" THEN node.cond.name ELSE "">> >>
                    \o BodyTrace(chosen)
    IN /\ \A i \in 1..Len(log) : log[i].env = op.env
       /\ Len(scopes) = Len(pre)
       /\ frames = <<>>
       /\ val = NoneV
       /\ IF c.err # NoErr
          THEN err = c.err /\ Len(log) = 2 /\ scopes = pre /\ out = <<>>
          ELSE /\ IsPrefix(Trace, expected)
               /\ err = NoErr =>
                    /\ Trace = expected
                    /\ \A i \in 1..Len(chosen) :
                         chosen[i].kind = "Let" =>
                           /\ Has(scopes[op.env].vars, chosen[i].name)
                           /\ Env_get(scopes, op.env, chosen[i].name).err = NoErr

\* an If with a falsy condition and an else-body, in a child scope: the else
\* branch alone ran, and the child scope holds the variable it declared
C17_Witness ==
  /\ op.name = "if"
  /\ op.env = 2
  /\ IfPrograms[op.prog].cond = Number(0)
  /\ Len(IfPrograms[op.prog].false_body) = 2
  /\ err = NoErr
  /\ out = <<"0">>
  /\ DeclaredNames(scopes, 2) = {"e"}
  /\ DeclaredNames(scopes, 1) = {}

\* the line printed last begins with the mark of a superuser command
CommandPrinted(M) ==
  /\ Len(M.out) > 0
  /\ Len(M.out[Len(M.out)]) >= 12
  /\ SubSeq(M.out[Len(M.out)], 1, 12) = "[SUPERUSER] "

\* what line j of the last run did: it switched superuser mode on, it
\* evaluated a statement, it executed (or raised in) a superuser command
Toggled(j) == AfterIn(j).out = Append(AfterIn(j - 1).out, "[SUPERUSER MODE ACTIVATED]")

Evaluated(j) == AfterIn(j).log # AfterIn(j - 1).log

Commanded(j) ==
  \/ Len(AfterIn(j).out) > Len(AfterIn(j - 1).out) /\ CommandPrinted(AfterIn(j))
  \/ /\ AfterIn(j - 1).scopes[op.env].superuser
     /\ AfterIn(j).err # NoErr
     /\ AfterIn(j).log = AfterIn(j - 1).log
     /\ Len(strip(OpLines[j])) >= 7
     /\ SubSeq(strip(OpLines[j]), 1, 7) = "set_var"

\* C18: a line of run does at most one of three things: it switches
\* superuser mode on, it evaluates a statement, or it executes a superuser
\* command.  A magic-token line switches the mode on, evaluates no node and
\* changes no variable; no line both evaluates a statement and executes a
\* superuser command, superuser mode on or off.
C18_OneActionPerLine ==
  op.name = "super" =>
    \A j \in 1..Len(OpLines) :
      Ok(AfterIn(j - 1)) =>
        /\ ~(Toggled(j) /\ Evaluated(j))
        /\ ~(Toggled(j) /\ Commanded(j))
        /\ ~(Evaluated(j) /\ Commanded(j))
        /\ IsMagicLine(OpLines[j]) =>
             /\ Toggled(j)
             /\ AfterIn(j).err = NoErr
             /\ \A s \in 1..Len(pre) : AfterIn(j).scopes[s].vars = AfterIn(j - 1).scopes[s].vars

\* in superuser mode the line "let reveal_vars = 3" declared the variable
\* and no command ran
C18_Witness ==
  /\ op.name = "super"
  /\ op.src = "let reveal_vars = 3"
  /\ pre[op.env].superuser
  /\ Evaluated(1)
  /\ ~Commanded(1)
  /\ out = <<>>
  /\ ValueOf(scopes, op.env, "reveal_vars") = IntV(3)

\* a run whose lines evaluate a statement, switch the mode on and execute a command
C18_WitnessThree ==
  /\ op.name = "super"
  /\ Len(OpLines) = 3
  /\ Toggled(1) /\ ~Evaluated(1) /\ ~Commanded(1)
  /\ Commanded(2) /\ ~Evaluated(2) /\ ~Toggled(2)
  /\ Evaluated(3) /\ ~Commanded(3) /\ ~Toggled(3)

====
